---- MODULE Spec2Model ----
(***************************************************************************)
(* A model of src/nami.py: the PDF search aggregation service.             *)
(*                                                                         *)
(*   parse_html      the HTML-to-result extraction (pure function)         *)
(*   fetch_url       one GET, classified by status                         *)
(*   perform_search  the retry loop with exponential backoff and jitter    *)
(*   search          the POST /search handler: cache lookup, the gather of *)
(*                   two perform_search calls, response, cache store       *)
(*   cache           the process-wide TTLCache(maxsize, ttl)               *)
(*                                                                         *)
(* Time is counted in ticks of the cache's timer.  Sleep durations are     *)
(* counted in units of 1/JitterSteps second.                               *)
(***************************************************************************)
EXTENDS Integers, Sequences, FiniteSets, TLC

VARIABLES
    now,        \* the cache timer's current reading (ticks)
    cache,      \* the TTLCache: entries [key, value, expires], least recently used first
    stored,     \* history: per key, what line 91 last stored and when
    rq,         \* the search requests: position, inputs, outcome (and history: the age of
                \* the key's last store at the lookup, whether a hit returned what was stored)
    ps,         \* the perform_search calls: position, parameters, locals, outcome
    attempts,   \* history: the attempts of the directly invoked call, each with what
                \* its GET produced, the exception it raised, if any, and the duration
                \* slept after it, if any
    served,     \* history: how many requests have arrived
    pcall,      \* a direct call of parse_html: its input and output
    kcall,      \* a direct evaluation of the cache key format: its input and output
    fcall       \* a direct call of fetch_url: the response it got and its outcome

vars == <<now, cache, stored, rq, ps, attempts, served, pcall, kcall, fcall>>

----------------------------------------------------------------------------
(* Bounds of the model *)

\* number of search requests that arrive, with nothing to order them
MaxConcurrent == 2
\* number of search requests that one client sends, one after the other
MaxSequential == 3
\* the timer is observed up to this reading
MaxTime == 3
\* largest retries parameter tried on a direct perform_search call
MaxRetries == 3
\* granularity of random.uniform(0, 1): a jitter is j/JitterSteps, j in 0..JitterSteps
JitterSteps == 1
\* longest document (in result containers) given to a direct parse_html call
MaxContainers == 3
\* largest num_results given to a direct parse_html or perform_search call
MaxNum == 2
\* number of requests of the client whose requests are followed to their end
MaxServed == 2
\* longest query (in characters) given to the cache key format
MaxQueryLen == 2
\* largest num_results given to the cache key format
MaxKeyNum == 11
\* longest href (in characters) of a link given to parse_html
MaxHrefLen == 5

(* Program constants *)

\* TTLCache(maxsize=100, ...), scaled down
MaxSize == 2
\* TTLCache(..., ttl=3600), scaled down to ticks
TTL == 2
\* perform_search(..., retries: int = 3, ...)
DefaultRetries == 3
\* perform_search(..., backoff_factor: float = 1)
DefaultBackoff == 1

----------------------------------------------------------------------------
(* Strings are sequences of one-character strings, so that formatting and   *)
(* splitting are computed and not assumed.                                  *)

RECURSIVE Pow2(_)
Pow2(n) == IF n = 0 THEN 1 ELSE 2 * Pow2(n - 1)

Digit(d) == CASE d = 0 -> "0" [] d = 1 -> "1" [] d = 2 -> "2" [] d = 3 -> "3"
              [] d = 4 -> "4" [] d = 5 -> "5" [] d = 6 -> "6" [] d = 7 -> "7"
              [] d = 8 -> "8" [] d = 9 -> "9"

\* str(n) of a Python int
RECURSIVE IntToStr(_)
IntToStr(n) ==
    IF n < 0 THEN <<"-">> \o IntToStr(0 - n)
    ELSE IF n < 10 THEN <<Digit(n)>>
    ELSE IntToStr(n \div 10) \o <<Digit(n % 10)>>

\* s[i..] starts with the marker m
StartsAt(s, i, m) ==
    /\ i + Len(m) - 1 <= Len(s)
    /\ \A j \in 1..Len(m) : s[i + j - 1] = m[j]

\* positions at which marker m occurs in s
Occurrences(s, m) == {i \in 1..Len(s) : StartsAt(s, i, m)}

\* s.split(m)[0]
SplitFirst(s, m) ==
    IF Occurrences(s, m) = {} THEN s
    ELSE LET i == CHOOSE x \in Occurrences(s, m) : \A y \in Occurrences(s, m) : x <= y
         IN  SubSeq(s, 1, i - 1)

\* s.split(m)[-1]: Python splits at non-overlapping occurrences scanned from the left
RECURSIVE SplitLast(_, _)
SplitLast(s, m) ==
    IF Occurrences(s, m) = {} THEN s
    ELSE LET i == CHOOSE x \in Occurrences(s, m) : \A y \in Occurrences(s, m) : x <= y
         IN  SplitLast(SubSeq(s, i + Len(m), Len(s)), m)

Amp == <<"&">>
QMarker == <<"?", "q", "=">>

\* the normalisation as it would be if the part after the first "&" were kept
NormalizeUrlKeepsTail(href) == SplitLast(href, QMarker)

\* href.split("&")[0].split("?q=")[-1]
NormalizeUrl(href) == SplitLast(SplitFirst(href, Amp), QMarker)

----------------------------------------------------------------------------
(* parse_html.  A document is the sequence of its <div class="g">          *)
(* containers in document order; a container holds the href of its first   *)
(* <a href> and the text of its first <h3>: g.find(...) is None, or the tag. *)

None == <<>>
Some(v) == <<v>>

\* the for loop of parse_html from container i on, with the results so far
RECURSIVE ParseLoop(_, _, _, _)
ParseLoop(doc, i, results, num_results) ==
    IF i > Len(doc) THEN results
    ELSE LET g == doc[i]
             appended ==
                 IF g.link # None /\ g.title # None
                 THEN Append(results, <<g.title[1], NormalizeUrl(g.link[1])>>)
                 ELSE results
         IN  IF Len(appended) >= num_results THEN appended
             ELSE ParseLoop(doc, i + 1, appended, num_results)

parse_html(html, num_results) == ParseLoop(html, 1, <<>>, num_results)

----------------------------------------------------------------------------
(* The upstream search engine, as seen through aiohttp.                     *)

Sides == {"global", "archive"}

\* f"https://www.google.com/search?q=filetype:pdf+{request.query}"
GlobalUrl(query) == <<"https://www.google.com/search?q=filetype:pdf+">> \o query

\* f"https://www.google.com/search?q=site:archive.org+filetype:pdf+{request.query}"
ArchiveUrl(query) == <<"https://www.google.com/search?q=site:archive.org+filetype:pdf+">> \o query

\* a well-formed result container of the page served for url
Container(url, i) ==
    [link |-> Some(QMarker \o <<"x">> \o Amp \o <<"y">>), title |-> Some(<<url, i>>)]

\* the page of results the engine has for url: two results around a container
\* without a heading
ResultPage(url) ==
    <<Container(url, 1), [link |-> Some(<<"x">>), title |-> None], Container(url, 2)>>

\* the pages the engine may serve for url: its page of results and, when the
\* search is scoped to the archive host, also a page without any result
Pages(url) ==
    IF url # <<>> /\ url[1] = ArchiveUrl(<<>>)[1] THEN {<<>>, ResultPage(url)}
    ELSE {ResultPage(url)}

\* a page nested too deeply for the parser: BeautifulSoup(html, 'html.parser')
\* raises RecursionError on it
Unparseable == <<[link |-> Some(<<"<div>">>), title |-> Some(<< <<"<div>">>, 0 >>)]>>

\* the statuses the engine answers with
UpstreamStatuses == {200, 429, 503}

\* what session.get may produce for url: a response, or a transport error
Responses(url) ==
    {[kind |-> "response", status |-> 200, body |-> p] : p \in Pages(url) \cup {Unparseable}}
    \cup {[kind |-> "response", status |-> s, body |-> <<>>] : s \in UpstreamStatuses \ {200}}
    \cup {[kind |-> "ClientError", status |-> 0, body |-> <<>>]}

----------------------------------------------------------------------------
(* fetch_url: the outcome of the single GET.                                *)

NoCause == <<"", 0>>

NoException == [type |-> "", status_code |-> 0, attempts |-> 0, cause |-> NoCause]

\* an exception: its class, and for an HTTPException its status_code; the
\* exhaustion error also carries, in its detail, the attempt count and str(e)
Exception(type, status_code) ==
    [type |-> type, status_code |-> status_code, attempts |-> 0, cause |-> NoCause]

\* str(e) of a caught exception, as far as it identifies the cause
ExcStr(e) == <<e.type, e.status_code>>

Raise(type, status_code) == [ok |-> FALSE, text |-> <<>>, exc |-> Exception(type, status_code)]

\* the classification as it would be if every failing status were reported alike
fetch_url_generic(resp) ==
    IF resp.kind = "response" /\ resp.status = 200
    THEN [ok |-> TRUE, text |-> resp.body, exc |-> NoException]
    ELSE Raise("HTTPException", 500)

fetch_url(resp) ==
    IF resp.kind # "response" THEN Raise(resp.kind, 0)
    ELSE IF resp.status = 200 THEN [ok |-> TRUE, text |-> resp.body, exc |-> NoException]
    ELSE IF resp.status = 429 THEN Raise("HTTPException", 429)
    ELSE Raise("HTTPException", resp.status)

\* the attempt as it would be if an error of the extraction were not caught
\* but taken for an empty page
AttemptIgnoresParseError(resp, num_results) ==
    IF ~fetch_url(resp).ok
    THEN [ok |-> FALSE, results |-> None, exc |-> fetch_url(resp).exc]
    ELSE [ok |-> TRUE, exc |-> NoException,
          results |-> Some(IF fetch_url(resp).text = Unparseable THEN <<>>
                           ELSE parse_html(fetch_url(resp).text, num_results))]

\* lines 60-64, one attempt: the fetch, then the extraction of the body in the
\* executor; whatever either raises is caught on line 65
Attempt(resp, num_results) ==
    IF ~fetch_url(resp).ok
    THEN [ok |-> FALSE, results |-> None, exc |-> fetch_url(resp).exc]
    ELSE IF fetch_url(resp).text = Unparseable
    THEN [ok |-> FALSE, results |-> None, exc |-> Exception("RecursionError", 0)]
    ELSE [ok |-> TRUE, results |-> Some(parse_html(fetch_url(resp).text, num_results)),
          exc |-> NoException]

----------------------------------------------------------------------------
(* cache = TTLCache(maxsize, ttl): a sequence of entries, least recently    *)
(* used first.  An entry is live at timer reading t iff t < expires.        *)

HasKey(c, k) == \E i \in 1..Len(c) : c[i].key = k

EntryOf(c, k) == c[CHOOSE i \in 1..Len(c) : c[i].key = k]

Without(c, k) == SelectSeq(c, LAMBDA e : e.key # k)

\* the test as it would be if an entry were still live at its expiry time
ContainsAtExpiry(c, k, t) == HasKey(c, k) /\ t <= EntryOf(c, k).expires

\* key in cache, read at t: no reordering, nothing removed
Contains(c, k, t) == HasKey(c, k) /\ t < EntryOf(c, k).expires

\* expire(time): drop every entry that is no longer live
Expire(c, t) == SelectSeq(c, LAMBDA e : t < e.expires)

\* cache[key], read at t: the entry becomes the most recently used one; an
\* absent or expired key is a KeyError
GetItem(c, k, t) ==
    IF ~HasKey(c, k) THEN [found |-> FALSE, cache |-> c]
    ELSE [found |-> t < EntryOf(c, k).expires,
          cache |-> Without(c, k) \o <<EntryOf(c, k)>>]

\* popitem() as it would be if the most recently used entry went
PopItemNewest(c) == SubSeq(c, 1, Len(c) - 1)

\* popitem(): the least recently used entry goes
PopItem(c) == Tail(c)

\* while currsize + 1 > maxsize: popitem()
RECURSIVE MakeRoom(_)
MakeRoom(c) == IF Len(c) + 1 > MaxSize /\ Len(c) > 0 THEN MakeRoom(PopItem(c)) ELSE c

\* the store as it would be if an entry already held under the key were kept
SetItemAppend(c, k, v, t) == c \o <<[key |-> k, value |-> v, expires |-> t + TTL]>>

\* cache[key] = value, written at t: expired entries go first, then room is
\* made for a new key, and the entry is (re)inserted as most recently used
SetItem(c, k, v, t) ==
    LET live == Expire(c, t)
        room == IF HasKey(live, k) THEN live ELSE MakeRoom(live)
    IN  Without(room, k) \o <<[key |-> k, value |-> v, expires |-> t + TTL]>>

----------------------------------------------------------------------------
(* The requests and the calls.                                              *)

\* the request slots: a slot holds one request, from its arrival to the arrival
\* of the next request on it
Requests == 1..MaxConcurrent

\* the perform_search call made directly, outside any request
Direct == <<0, "direct">>

Calls == (Requests \X Sides) \cup {Direct}

\* the two perform_search calls of request r
CallsOf(r) == {<<r, side>> : side \in Sides}

\* the bodies POST /search is given: SearchRequest(query: str, num_results: int)
RequestInputs ==
    { [query |-> <<"a">>, num_results |-> 1],
      [query |-> <<"A">>, num_results |-> 1],
      [query |-> <<"a", ":", "1">>, num_results |-> 0] }

\* backoff_factor values given to a direct call
BackoffFactors == {1, 2}

Lower(ch) == IF ch = "A" THEN "a" ELSE ch

\* the key as it would be if the query were lower-cased first
CacheKeyIgnoresCase(query, num_results) ==
    [i \in 1..Len(query) |-> Lower(query[i])] \o <<":">> \o IntToStr(num_results)

\* the key as it would be without its separator
CacheKeyNoSeparator(query, num_results) == query \o IntToStr(num_results)

\* cache_key = f"{request.query}:{request.num_results}"
CacheKey(query, num_results) == query \o <<":">> \o IntToStr(num_results)

Keys == {CacheKey(i.query, i.num_results) : i \in RequestInputs}

EmptyResponse == [global_results |-> <<>>, archive_results |-> <<>>]

\* the response as it would be with its two sides exchanged
SearchResponseSwapped(global_results, archive_results) ==
    [global_results |->
        [i \in 1..Len(archive_results) |->
            [title |-> archive_results[i][1], url |-> archive_results[i][2]]],
     archive_results |->
        [i \in 1..Len(global_results) |->
            [title |-> global_results[i][1], url |-> global_results[i][2]]]]

\* SearchResponse(global_results=[SearchResult(title=title, url=url) for ...], ...)
SearchResponse(global_results, archive_results) ==
    [global_results |->
        [i \in 1..Len(global_results) |->
            [title |-> global_results[i][1], url |-> global_results[i][2]]],
     archive_results |->
        [i \in 1..Len(archive_results) |->
            [title |-> archive_results[i][1], url |-> archive_results[i][2]]]]

IdleRequest ==
    [pc |-> "idle", query |-> <<>>, num_results |-> 0, via |-> "",
     response |-> EmptyResponse, status |-> 0, error |-> NoException,
     age |-> -1, asStored |-> FALSE]

IdleCall ==
    [pc |-> "idle", url |-> <<>>, num_results |-> 0, retries |-> 0, backoff_factor |-> 0,
     attempt |-> 0, nfetch |-> 0, nsleep |-> 0,
     result |-> None, exc |-> NoException]

\* entering perform_search as it would be if the loop made one attempt more
StartCallOneMore(url, num_results, retries, backoff_factor) ==
    [IdleCall EXCEPT !.pc = "fetching",
                     !.url = url, !.num_results = num_results,
                     !.retries = retries + 1, !.backoff_factor = backoff_factor]

\* entering perform_search: range(retries) is empty for retries <= 0, and the
\* function then falls off its end and returns None
StartCall(url, num_results, retries, backoff_factor) ==
    [IdleCall EXCEPT !.pc = IF retries > 0 THEN "fetching" ELSE "returned",
                     !.url = url, !.num_results = num_results,
                     !.retries = retries, !.backoff_factor = backoff_factor]

\* the sleep as it would be without the exponential: backoff_factor + jitter
SleepTimeConstant(backoff_factor, attempt, jitter) == backoff_factor * JitterSteps + jitter

\* backoff_factor * (2 ** attempt) + random.uniform(0, 1), in 1/JitterSteps s
SleepTime(backoff_factor, attempt, jitter) ==
    backoff_factor * Pow2(attempt) * JitterSteps + jitter

\* HTTPException(status_code=500, detail=f"All {retries} attempts failed. Error: {str(e)}")
Exhausted(retries, e) ==
    [type |-> "HTTPException", status_code |-> 500, attempts |-> retries, cause |-> ExcStr(e)]

OwnerOf(c) == c[1]

\* the test as it would be if it were off by one
AttemptsRemainOffByOne(attempt, retries) == attempt < retries

\* if attempt < retries - 1
AttemptsRemain(attempt, retries) == attempt < retries - 1

\* history: one more attempt of the directly invoked call
Attempted(c, resp, exc, sleep_time) ==
    IF c = Direct THEN Append(attempts, [got |-> resp, exc |-> exc, sleep |-> sleep_time])
    ELSE attempts

InitBase ==
    /\ now = 0
    /\ cache = <<>>
    /\ stored = [k \in Keys |-> [at |-> -1, value |-> EmptyResponse]]
    /\ rq = [r \in Requests |-> IdleRequest]
    /\ ps = [c \in Calls |-> IdleCall]
    /\ attempts = <<>>
    /\ served = 0

----------------------------------------------------------------------------
(* search, after the cache lookup missed: the gather and what follows it.   *)

\* gather as it would be if only its first awaitable's exception were propagated
GatherRaisesFirstOnly(g, a) == g.pc = "raised"

\* asyncio.gather(a, b) without return_exceptions: the first exception raised by
\* either awaitable is propagated at once to the awaiting search
GatherRaises(g, a) == g.pc = "raised" \/ a.pc = "raised"

\* gather returns the pair of results once both awaitables have returned
GatherReturns(g, a) == g.pc = "returned" /\ a.pc = "returned"

\* a call that is over leaves nothing behind but how it ended: its frame is
\* gone, and its result or exception has been handed to gather (history: the
\* numbers of fetches and of sleeps it made are kept)
Over(call) ==
    [IdleCall EXCEPT !.pc = call.pc, !.nfetch = call.nfetch, !.nsleep = call.nsleep]

\* the calls of request r once search has resumed from the gather
Consumed(r, calls) ==
    [c \in Calls |->
        IF OwnerOf(c) = r /\ calls[c].pc \in {"returned", "raised"}
        THEN Over(calls[c]) ELSE calls[c]]

\* lines 81-92 for request r, given the calls as they are after a call's step:
\* search resumes when gather raises or returns, and otherwise keeps waiting;
\* a call that ends after its request has completed changes nothing
ResumeSearch(r, calls) ==
    LET g == calls[<<r, "global">>]
        a == calls[<<r, "archive">>]
        key == CacheKey(rq[r].query, rq[r].num_results)
        response == SearchResponse(g.result[1], a.result[1])
    IN  IF rq[r].pc # "gathering"
        THEN ps' = Consumed(r, calls) /\ UNCHANGED <<rq, cache, stored>>
        ELSE IF GatherRaises(g, a)
        THEN /\ rq' = [rq EXCEPT ![r].pc = "failed",
                                 ![r].error = IF g.pc = "raised" THEN g.exc ELSE a.exc,
                                 ![r].status = IF g.pc = "raised" THEN g.exc.status_code
                                               ELSE a.exc.status_code]
             /\ ps' = Consumed(r, calls)
             /\ UNCHANGED <<cache, stored>>
        ELSE IF GatherReturns(g, a)
        THEN IF g.result = None \/ a.result = None
             THEN \* iterating over None is a TypeError: an unhandled exception
                  /\ rq' = [rq EXCEPT ![r].pc = "failed", ![r].status = 500,
                                      ![r].error = Exception("TypeError", 0)]
                  /\ ps' = Consumed(r, calls)
                  /\ UNCHANGED <<cache, stored>>
             ELSE /\ rq' = [rq EXCEPT ![r].pc = "done", ![r].status = 200,
                                      ![r].response = response]
                  /\ ps' = Consumed(r, calls)
                  /\ cache' = SetItem(cache, key, response, now)
                  /\ stored' = [stored EXCEPT ![key] = [at |-> now, value |-> response]]
        ELSE ps' = calls /\ UNCHANGED <<rq, cache, stored>>

\* a call's step is followed by its request's continuation, if it has a request
Resume(c, calls) ==
    IF OwnerOf(c) \in Requests THEN ResumeSearch(OwnerOf(c), calls)
    ELSE ps' = calls /\ UNCHANGED <<rq, cache, stored>>

----------------------------------------------------------------------------
(* perform_search: one step per await.                                      *)

\* (the outcome of an attempt and the calls after a step are each one value,
\* bound by \E over a singleton so that they are computed once)

\* the fetch of this attempt answers 200 and the body is extracted: return results
FetchOk(c, resp) ==
    /\ ps[c].pc = "fetching"
    /\ resp \in Responses(ps[c].url)
    /\ \E outcome \in {Attempt(resp, ps[c].num_results)} :
          /\ outcome.ok
          /\ \E calls \in {[ps EXCEPT ![c].pc = "returned",
                                       ![c].nfetch = @ + 1,
                                       ![c].result = outcome.results]} :
                Resume(c, calls)
    /\ attempts' = Attempted(c, resp, NoException, -1)
    /\ UNCHANGED <<now, served, pcall, kcall, fcall>>

\* the attempt raises and attempts remain: sleep
FetchFailRetry(c, resp, jitter) ==
    /\ ps[c].pc = "fetching"
    /\ resp \in Responses(ps[c].url)
    /\ AttemptsRemain(ps[c].attempt, ps[c].retries)
    /\ jitter \in 0..JitterSteps
    /\ \E outcome \in {Attempt(resp, ps[c].num_results)} :
          /\ ~outcome.ok
          /\ LET sleep_time == SleepTime(ps[c].backoff_factor, ps[c].attempt, jitter)
             IN  /\ ps' = [ps EXCEPT ![c].pc = "sleeping",
                                     ![c].nfetch = @ + 1,
                                     ![c].nsleep = @ + 1]
                 /\ attempts' = Attempted(c, resp, outcome.exc, sleep_time)
    /\ UNCHANGED <<now, cache, stored, rq, served, pcall, kcall, fcall>>

\* the attempt raises and it was the last one: raise the exhaustion error
FetchFailLast(c, resp) ==
    /\ ps[c].pc = "fetching"
    /\ resp \in Responses(ps[c].url)
    /\ ~AttemptsRemain(ps[c].attempt, ps[c].retries)
    /\ \E outcome \in {Attempt(resp, ps[c].num_results)} :
          /\ ~outcome.ok
          /\ \E calls \in {[ps EXCEPT ![c].pc = "raised",
                                       ![c].nfetch = @ + 1,
                                       ![c].exc = Exhausted(ps[c].retries, outcome.exc)]} :
                Resume(c, calls)
          /\ attempts' = Attempted(c, resp, outcome.exc, -1)
    /\ UNCHANGED <<now, served, pcall, kcall, fcall>>

\* asyncio.sleep(sleep_time) is over: the for loop goes on to its next attempt,
\* or, range(retries) being used up, ends, and the function returns None
Wake(c) ==
    /\ ps[c].pc = "sleeping"
    /\ \E calls \in {IF ps[c].attempt + 1 < ps[c].retries
                      THEN [ps EXCEPT ![c].pc = "fetching", ![c].attempt = @ + 1]
                      ELSE [ps EXCEPT ![c].pc = "returned"]} :
          Resume(c, calls)
    /\ UNCHANGED <<now, attempts, served, pcall, kcall, fcall>>

\* perform_search is called directly with parameters of the caller's choice
DirectCall(num_results, retries, backoff_factor) ==
    /\ ps[Direct].pc = "idle"
    /\ ps' = [ps EXCEPT ![Direct] =
                 StartCall(ArchiveUrl(<<"a">>), num_results, retries, backoff_factor)]
    /\ UNCHANGED <<now, cache, stored, rq, attempts, served, pcall, kcall, fcall>>

----------------------------------------------------------------------------
(* search: the handler up to its first await.                               *)

\* history: how long before line 75 reads the timer line 91 last stored under
\* key; -1 if it never did
Age(key) == IF stored[key].at < 0 THEN -1 ELSE now - stored[key].at

\* the slot's previous request is over and none of its calls is left
NoCalls(r) == [c \in Calls |-> IF OwnerOf(c) = r THEN IdleCall ELSE ps[c]]

\* lines 74-76, the key is in the cache when line 75 reads the timer; line 76
\* reads the timer again, which may by then have advanced by dt
SearchHit(r, input, dt) ==
    /\ rq[r].pc # "gathering"
    /\ now + dt <= MaxTime
    /\ LET key == CacheKey(input.query, input.num_results)
           got == GetItem(cache, key, now + dt)
       IN  /\ Contains(cache, key, now)
           /\ cache' = got.cache
           /\ rq' = [rq EXCEPT ![r] =
                   [IdleRequest EXCEPT
                       !.pc = IF got.found THEN "done" ELSE "failed",
                       !.query = input.query, !.num_results = input.num_results,
                       !.via = "hit",
                       !.response = IF got.found THEN EntryOf(cache, key).value
                                    ELSE EmptyResponse,
                       !.status = IF got.found THEN 200 ELSE 500,
                       !.error = IF got.found THEN NoException ELSE Exception("KeyError", 0),
                       !.age = Age(key),
                       !.asStored = got.found /\ EntryOf(cache, key).value = stored[key].value]]
    /\ ps' = NoCalls(r)
    /\ now' = now + dt
    /\ served' = served + 1
    /\ UNCHANGED <<stored, attempts, pcall, kcall, fcall>>

\* lines 74-84, the key is not in the cache: both calls are started
SearchMiss(r, input) ==
    /\ rq[r].pc # "gathering"
    /\ LET key == CacheKey(input.query, input.num_results)
       IN  /\ ~Contains(cache, key, now)
           /\ rq' = [rq EXCEPT ![r] =
                   [IdleRequest EXCEPT
                       !.pc = "gathering",
                       !.query = input.query, !.num_results = input.num_results,
                       !.via = "miss", !.age = Age(key)]]
    /\ ps' = [ps EXCEPT
                 ![<<r, "global">>] = StartCall(GlobalUrl(input.query), input.num_results,
                                                DefaultRetries, DefaultBackoff),
                 ![<<r, "archive">>] = StartCall(ArchiveUrl(input.query), input.num_results,
                                                 DefaultRetries, DefaultBackoff)]
    /\ served' = served + 1
    /\ UNCHANGED <<now, cache, stored, attempts, pcall, kcall, fcall>>

\* the timer advances
Tick ==
    /\ now < MaxTime
    /\ now' = now + 1
    /\ UNCHANGED <<cache, stored, rq, ps, attempts, served, pcall, kcall, fcall>>

----------------------------------------------------------------------------
(* A direct call of parse_html.                                             *)

\* the containers a document given to parse_html is made of
ContainerKinds ==
    { Container(GlobalUrl(<<"a">>), 1),
      Container(GlobalUrl(<<"a">>), 2),
      [link |-> None, title |-> Some(<<GlobalUrl(<<"a">>), 3>>)],
      [link |-> Some(<<"x">>), title |-> None] }

Documents == UNION {[1..k -> ContainerKinds] : k \in 0..MaxContainers}

IdleParse == [pc |-> "idle", html |-> <<>>, num_results |-> 0, results |-> <<>>]

ParseCall ==
    /\ pcall.pc = "called"
    /\ pcall' = [pcall EXCEPT !.pc = "returned",
                              !.results = parse_html(pcall.html, pcall.num_results)]
    /\ UNCHANGED <<now, cache, stored, rq, ps, attempts, served, kcall, fcall>>

----------------------------------------------------------------------------
(* A direct evaluation of the cache key format of line 74.                  *)

\* the characters a query is made of: a letter in both cases, the key's
\* separator, a digit
QueryChars == {"a", "A", ":", "1"}

Queries == UNION {[1..k -> QueryChars] : k \in 0..MaxQueryLen}

\* SearchRequest(query: str, num_results: int): any string, any int
KeyInputs == {[query |-> q, num_results |-> n] : q \in Queries, n \in (-1)..MaxKeyNum}

IdleKey == [pc |-> "idle", query |-> <<>>, num_results |-> 0, cache_key |-> <<>>]

KeyCall ==
    /\ kcall.pc = "called"
    /\ kcall' = [kcall EXCEPT !.pc = "returned",
                              !.cache_key = CacheKey(kcall.query, kcall.num_results)]
    /\ UNCHANGED <<now, cache, stored, rq, ps, attempts, served, pcall, fcall>>

----------------------------------------------------------------------------
(* A direct call of fetch_url.                                              *)

\* the statuses response.status may hold
HttpStatuses == 100..599

\* what session.get may produce: a response of any status, with a body, or a
\* transport error
FetchInputs ==
    {[kind |-> "response", status |-> s, body |-> ResultPage(GlobalUrl(<<"a">>))] :
        s \in HttpStatuses}
    \cup {[kind |-> "ClientError", status |-> 0, body |-> <<>>]}

IdleFetch ==
    [pc |-> "idle", resp |-> [kind |-> "", status |-> 0, body |-> <<>>],
     gets |-> 0, text |-> <<>>, exc |-> NoException]

\* the one session.get of fetch_url has produced fcall.resp
FetchCall ==
    /\ fcall.pc = "called"
    /\ fcall' = [fcall EXCEPT !.pc = IF fetch_url(fcall.resp).ok THEN "returned" ELSE "raised",
                              !.gets = @ + 1,
                              !.text = fetch_url(fcall.resp).text,
                              !.exc = fetch_url(fcall.resp).exc]
    /\ UNCHANGED <<now, cache, stored, rq, ps, attempts, served, pcall, kcall>>

----------------------------------------------------------------------------
(* Specifications *)

Init == InitBase /\ pcall = IdleParse /\ kcall = IdleKey /\ fcall = IdleFetch

\* request slot r is free for its one request, the slots being taken in order
Fresh(r) == rq[r].pc = "idle" /\ \A q \in Requests : q < r => rq[q].pc # "idle"

\* the service under concurrent requests, within a time too short for the timer
\* to advance other than between two reads: requests arrive at any time and
\* their searches interleave
Next ==
    \/ \E r \in Requests, input \in RequestInputs, dt \in 0..1 :
          Fresh(r) /\ SearchHit(r, input, dt)
    \/ \E r \in Requests, input \in RequestInputs : Fresh(r) /\ SearchMiss(r, input)
    \/ \E c \in Calls : \E resp \in Responses(ps[c].url) : FetchOk(c, resp)
    \/ \E c \in Calls : \E resp \in Responses(ps[c].url), j \in 0..JitterSteps :
          FetchFailRetry(c, resp, j)
    \/ \E c \in Calls : \E resp \in Responses(ps[c].url) : FetchFailLast(c, resp)
    \/ \E c \in Calls : Wake(c)

Spec == Init /\ [][Next]_vars

\* no request is waiting and no call is running
Quiescent ==
    /\ \A r \in Requests : rq[r].pc # "gathering"
    /\ \A c \in Calls : ps[c].pc \notin {"fetching", "sleeping"}

\* one client may send its next request
MaySend == Quiescent /\ served < MaxSequential

\* the service under one client, which sends its next request when the
\* previous one is over and nothing of it is left running, while the timer
\* advances
NextSequential ==
    \/ \E input \in RequestInputs, dt \in 0..1 : MaySend /\ SearchHit(1, input, dt)
    \/ \E input \in RequestInputs : MaySend /\ SearchMiss(1, input)
    \/ \E c \in Calls : \E resp \in Responses(ps[c].url) : FetchOk(c, resp)
    \/ \E c \in Calls : \E resp \in Responses(ps[c].url), j \in 0..JitterSteps :
          FetchFailRetry(c, resp, j)
    \/ \E c \in Calls : \E resp \in Responses(ps[c].url) : FetchFailLast(c, resp)
    \/ \E c \in Calls : Wake(c)
    \/ Tick

SpecSequential == Init /\ [][NextSequential]_vars

\* a step of call c: its fetch answers, or its sleep is over
CallStep(c) ==
    \/ \E resp \in Responses(ps[c].url) : FetchOk(c, resp)
    \/ \E resp \in Responses(ps[c].url), j \in 0..JitterSteps : FetchFailRetry(c, resp, j)
    \/ \E resp \in Responses(ps[c].url) : FetchFailLast(c, resp)
    \/ Wake(c)

\* one client sends up to MaxServed requests, each when the previous one is
\* over and nothing of it is left running
NextTerminating ==
    \/ \E input \in RequestInputs, dt \in 0..1 :
          Quiescent /\ served < MaxServed /\ SearchHit(1, input, dt)
    \/ \E input \in RequestInputs : Quiescent /\ served < MaxServed /\ SearchMiss(1, input)
    \/ \E c \in CallsOf(1) : CallStep(c)

\* the service under that client, where every fetch is answered (by a
\* response, an error or its timeout) and every sleep ends, and the event loop
\* resumes the call that waited for it
SpecTerminating ==
    /\ Init
    /\ [][NextTerminating]_vars
    /\ \A c \in CallsOf(1) : WF_vars(CallStep(c))

\* perform_search alone, called with every retries and backoff_factor
NextPerform ==
    \/ \E n \in 0..MaxNum, r \in 0..MaxRetries, b \in BackoffFactors : DirectCall(n, r, b)
    \/ \E resp \in Responses(ps[Direct].url) : FetchOk(Direct, resp)
    \/ \E resp \in Responses(ps[Direct].url), j \in 0..JitterSteps :
          FetchFailRetry(Direct, resp, j)
    \/ \E resp \in Responses(ps[Direct].url) : FetchFailLast(Direct, resp)
    \/ Wake(Direct)

SpecPerform == Init /\ [][NextPerform]_vars

\* parse_html alone, on every document and every num_results
InitParse ==
    /\ InitBase
    /\ pcall \in {[IdleParse EXCEPT !.pc = "called", !.html = d, !.num_results = n] :
                      d \in Documents, n \in 0..MaxNum}
    /\ kcall = IdleKey
    /\ fcall = IdleFetch

SpecParse == InitParse /\ [][ParseCall]_vars

\* the characters an href is made of: those of the two markers, and another
HrefChars == {"&", "?", "q", "=", "x"}

Hrefs == UNION {[1..k -> HrefChars] : k \in 0..MaxHrefLen}

\* parse_html alone, on a document of one well-formed container, for every href
InitNormalize ==
    /\ InitBase
    /\ pcall \in {[IdleParse EXCEPT
                       !.pc = "called",
                       !.html = <<[link |-> Some(h), title |-> Some(<<GlobalUrl(<<"a">>), 1>>)]>>,
                       !.num_results = 1] : h \in Hrefs}
    /\ kcall = IdleKey
    /\ fcall = IdleFetch

SpecNormalize == InitNormalize /\ [][ParseCall]_vars

\* the key format alone, on every query and every num_results
InitKey ==
    /\ InitBase
    /\ pcall = IdleParse
    /\ kcall \in {[IdleKey EXCEPT !.pc = "called", !.query = i.query,
                                   !.num_results = i.num_results] : i \in KeyInputs}
    /\ fcall = IdleFetch

SpecKey == InitKey /\ [][KeyCall]_vars

\* fetch_url alone, on every response
InitFetch ==
    /\ InitBase
    /\ pcall = IdleParse
    /\ kcall = IdleKey
    /\ fcall \in {[IdleFetch EXCEPT !.pc = "called", !.resp = resp] : resp \in FetchInputs}

SpecFetch == InitFetch /\ [][FetchCall]_vars

----------------------------------------------------------------------------
(* Properties of parse_html (SpecParse)                                     *)

\* the containers of a document that hold both a link and a heading, in order
ValidContainers(doc) == SelectSeq(doc, LAMBDA g : g.link # None /\ g.title # None)

Min(a, b) == IF a < b THEN a ELSE b

\* the first n valid containers of a document, as (title, url) pairs
FirstValid(doc, n) ==
    [i \in 1..Min(Len(ValidContainers(doc)), n) |->
        <<ValidContainers(doc)[i].title[1], NormalizeUrl(ValidContainers(doc)[i].link[1])>>]

\* C10: for a document with k valid containers and a requested maximum m,
\* parse_html returns exactly the first min(k, m) valid containers in document
\* order; an invalid container contributes nothing and a document without
\* containers gives the empty list.
C10_FirstMinValid ==
    pcall.pc = "returned" => pcall.results = FirstValid(pcall.html, pcall.num_results)

----------------------------------------------------------------------------
(* Properties of perform_search (SpecPerform)                               *)

Failed(i) == attempts[i].exc # NoException

AllFailed == \A i \in 1..Len(attempts) : Failed(i)

\* C2: with retries = r >= 1 and every attempt failing, perform_search makes
\* exactly r fetch attempts, sleeps after each of them but the last (r - 1
\* sleeps), and then raises the exhaustion error, which carries r and the last
\* attempt's exception; until then it neither returns nor raises.
C2_ExhaustedAfterRetries ==
    LET d == ps[Direct]
    IN  (d.retries >= 1 /\ AllFailed) =>
            /\ Len(attempts) <= d.retries
            /\ d.nfetch = Len(attempts)
            /\ \A i \in 1..Len(attempts) : (attempts[i].sleep >= 0) <=> (i < d.retries)
            /\ (d.pc = "raised") <=> (Len(attempts) = d.retries)
            /\ d.pc # "returned"
            /\ d.pc = "raised" =>
                   /\ d.nsleep = d.retries - 1
                   /\ d.exc = [type |-> "HTTPException", status_code |-> 500,
                               attempts |-> d.retries,
                               cause |-> ExcStr(attempts[d.retries].exc)]

\* the largest retries, every attempt rate limited, the call has raised
C2_Witness ==
    /\ ps[Direct].pc = "raised"
    /\ ps[Direct].retries = MaxRetries
    /\ Len(attempts) = MaxRetries
    /\ \A i \in 1..Len(attempts) : attempts[i].exc.status_code = 429

\* the call made r attempts, of which the first r - 1 failed and the last did not
TransientThenOk ==
    /\ ps[Direct].retries >= 1
    /\ Len(attempts) = ps[Direct].retries
    /\ \A i \in 1..(Len(attempts) - 1) : Failed(i)
    /\ ~Failed(Len(attempts))

\* C3, as claimed: with retries = r >= 1 and r - 1 transient failures followed
\* by a success, perform_search returns results after exactly r fetch attempts,
\* and the r - 1 sleep durations are strictly increasing.
C3_StrictlyIncreasingSleeps ==
    TransientThenOk =>
        /\ ps[Direct].pc = "returned" /\ ps[Direct].result # None
        /\ ps[Direct].nfetch = ps[Direct].retries
        /\ \A i \in 1..(Len(attempts) - 2) : attempts[i].sleep < attempts[i + 1].sleep

\* C3, amended: with retries = r >= 1, backoff_factor >= 1 and r - 1 transient
\* failures followed by a success, perform_search returns results after exactly
\* r fetch attempts; the sleep after attempt a (from 0) lasts between
\* backoff_factor * 2^a and backoff_factor * 2^a + 1 seconds, so that the r - 1
\* durations never decrease, and two consecutive ones may be equal.
C3_NonDecreasingSleeps ==
    TransientThenOk =>
        /\ ps[Direct].pc = "returned" /\ ps[Direct].result # None
        /\ ps[Direct].nfetch = ps[Direct].retries
        /\ ps[Direct].nsleep = ps[Direct].retries - 1
        /\ \A i \in 1..(Len(attempts) - 1) :
              /\ attempts[i].sleep >= ps[Direct].backoff_factor * Pow2(i - 1) * JitterSteps
              /\ attempts[i].sleep <= (ps[Direct].backoff_factor * Pow2(i - 1) + 1) * JitterSteps
        /\ \A i \in 1..(Len(attempts) - 2) : attempts[i].sleep <= attempts[i + 1].sleep

\* two failures then a success, and the two sleeps lasted equally long
C3_Witness ==
    /\ TransientThenOk
    /\ ps[Direct].pc = "returned"
    /\ ps[Direct].retries = 3
    /\ attempts[1].sleep = attempts[2].sleep

----------------------------------------------------------------------------
(* Properties of search under concurrent requests (Spec)                    *)

Completed(r) == rq[r].pc \in {"done", "failed"}

\* request r failed because a perform_search call of it used up its attempts
ExhaustedBy(r, status_code) ==
    /\ rq[r].pc = "failed"
    /\ rq[r].error.attempts > 0
    /\ rq[r].error.cause[2] = status_code

\* C1: on a cache miss, when either perform_search call raises its terminal
\* error, search fails with an error and returns no SearchResponse, whatever
\* the other call did.
C1_NoPartialResponse ==
    \A r \in Requests :
        (\E c \in CallsOf(r) : ps[c].pc = "raised") =>
            /\ rq[r].pc = "failed"
            /\ rq[r].status >= 400
            /\ rq[r].response = EmptyResponse

\* the general search returned results, the archive search raised, and the
\* request has failed
C1_Witness ==
    \E r \in Requests :
        /\ ps[<<r, "global">>].pc = "returned"
        /\ ps[<<r, "archive">>].pc = "raised"
        /\ rq[r].pc = "failed"

\* C4: the status a failed search surfaces when the attempts were used up by
\* rate limiting (429) differs from the status it surfaces when they were used
\* up by another failure.
C4_RateLimitDistinguished ==
    \A r1, r2 \in Requests :
        (ExhaustedBy(r1, 429) /\ ExhaustedBy(r2, 503)) => rq[r1].status # rq[r2].status

\* C5: once a request that missed the cache has completed, with a response or
\* with an error, neither of its perform_search calls is still fetching or
\* sleeping.
C5_CompletionWaitsForBoth ==
    \A r \in Requests :
        Completed(r) => \A c \in CallsOf(r) : ps[c].pc \notin {"fetching", "sleeping"}

\* C9: in every SearchResponse returned, global_results and archive_results
\* are each at most num_results long.
C9_AtMostNumResults ==
    \A r \in Requests :
        rq[r].pc = "done" =>
            /\ Len(rq[r].response.global_results) <= rq[r].num_results
            /\ Len(rq[r].response.archive_results) <= rq[r].num_results

----------------------------------------------------------------------------
(* Properties of the cache under one client (SpecSequential)                *)

KeyOf(r) == CacheKey(rq[r].query, rq[r].num_results)

\* C6: a request whose lookup reads the timer TTL or more after the last store
\* under its key is not answered from the cache: it takes the miss path and
\* starts both searches.
C6_NoExpiredHit ==
    \A r \in Requests :
        (rq[r].via # "" /\ rq[r].age >= TTL) =>
            /\ rq[r].via = "miss"
            /\ \A c \in CallsOf(r) : ps[c].pc # "idle"

\* a request arrived exactly TTL after the store under its key, found the
\* expired entry still held by the cache, and is running its searches
C6_Witness ==
    \E r \in Requests :
        /\ rq[r].pc = "gathering"
        /\ rq[r].age = TTL
        /\ HasKey(cache, KeyOf(r))

\* C7: a request that arrives while the entry of its key is in the cache and
\* has not expired returns exactly the response last stored under the key and
\* makes no fetch.
C7_HitReturnsStored ==
    \A r \in Requests :
        rq[r].via = "hit" =>
            /\ rq[r].pc = "done"
            /\ rq[r].asStored
            /\ \A c \in CallsOf(r) : ps[c].pc = "idle" /\ ps[c].nfetch = 0

\* a store of a new key into a cache full of live entries removes exactly the
\* least recently used entry, whose key is then no longer in the cache
EvictsLeastRecentlyUsed ==
    LET live == Expire(cache, now)
    IN  \A k \in Keys :
            (~HasKey(cache, k) /\ HasKey(cache', k) /\ Len(live) = MaxSize) =>
                /\ Len(cache') = MaxSize
                /\ \A i \in 1..(MaxSize - 1) : cache'[i] = live[i + 1]
                /\ cache'[MaxSize].key = k
                /\ ~HasKey(cache', live[1].key)
                /\ ~Contains(cache', live[1].key, now')

\* C8: the cache never holds more than maxsize entries; storing one key more
\* than fit, with nothing expired, evicts exactly one entry, the least
\* recently used one (the oldest inserted one, when no entry was read since),
\* and a lookup of the evicted key misses.
C8_CapacityBounded ==
    /\ [](Len(cache) <= MaxSize)
    /\ [][EvictsLeastRecentlyUsed]_vars

\* a key was stored, has not expired, and is no longer in the full cache
C8_Witness ==
    \E k \in Keys :
        /\ stored[k].at >= 0
        /\ now < stored[k].at + TTL
        /\ ~HasKey(cache, k)
        /\ Len(cache) = MaxSize
        /\ \A i \in 1..Len(cache) : now < cache[i].expires

----------------------------------------------------------------------------
(* Properties of the cache key format (SpecKey)                             *)

\* C11: two requests have the same cache key, and so share a cache entry, if
\* and only if their query strings are equal character for character and their
\* num_results are equal; queries that differ only by case, or that contain
\* ':' or digits themselves, never collide with another (query, num_results).
C11_KeyIsExactPair ==
    kcall.pc = "returned" =>
        \A j \in KeyInputs :
            (CacheKey(j.query, j.num_results) = kcall.cache_key)
                <=> (j.query = kcall.query /\ j.num_results = kcall.num_results)

\* the key of a query that ends in a digit after a ':', with a two-digit count
C11_Witness ==
    /\ kcall.pc = "returned"
    /\ kcall.query = <<":", "1">>
    /\ kcall.num_results = 11
    /\ kcall.cache_key = <<":", "1", ":", "1", "1">>

----------------------------------------------------------------------------
(* Properties of fetch_url (SpecFetch)                                      *)

RateLimited == Exception("HTTPException", 429)

\* C12: fetch_url makes one GET and classifies it by status: 200 returns the
\* body; 429 raises the rate-limit error (status 429), which no other outcome
\* raises; any other status outside 2xx raises an error carrying that status;
\* no failing status returns a body.
C12_ClassifiedByStatus ==
    fcall.pc \in {"returned", "raised"} =>
        /\ fcall.gets = 1
        /\ (fcall.resp.kind = "response" /\ fcall.resp.status = 200) =>
               /\ fcall.pc = "returned"
               /\ fcall.text = fcall.resp.body
               /\ fcall.exc = NoException
        /\ (fcall.resp.kind = "response" /\ fcall.resp.status = 429) =>
               /\ fcall.pc = "raised"
               /\ fcall.exc = RateLimited
        /\ (fcall.resp.kind = "response" /\ fcall.resp.status \notin 200..299
               /\ fcall.resp.status # 429) =>
               /\ fcall.pc = "raised"
               /\ fcall.exc = Exception("HTTPException", fcall.resp.status)
               /\ fcall.exc # RateLimited
        /\ (fcall.exc = RateLimited) =>
               (fcall.resp.kind = "response" /\ fcall.resp.status = 429)
        /\ (fcall.pc = "raised") => (fcall.text = <<>>)
        /\ (fcall.pc = "returned") => (fcall.resp.status = 200)

\* a response of status 503 with a body, and fetch_url has raised
C12_Witness ==
    /\ fcall.pc = "raised"
    /\ fcall.resp.status = 503
    /\ fcall.resp.body # <<>>
    /\ fcall.exc.status_code = 503

----------------------------------------------------------------------------
(* Properties of the URL normalisation (SpecNormalize)                      *)

\* the largest element of a non-empty set of integers
Max(S) == CHOOSE x \in S : \A y \in S : y <= x

\* the part of s before its first "&": all of s if there is none
BeforeFirstAmp(s) ==
    CHOOSE p \in {SubSeq(s, 1, n) : n \in 0..Len(s)} :
        /\ Occurrences(p, Amp) = {}
        /\ Len(p) < Len(s) => s[Len(p) + 1] = Amp[1]

\* the part of s after its last "?q=": all of s if there is none
AfterLastMarker(s) ==
    IF Occurrences(s, QMarker) = {} THEN s
    ELSE SubSeq(s, Max(Occurrences(s, QMarker)) + Len(QMarker), Len(s))

\* the href given to the call, and the url of the one result it returned
HrefOf(call) == call.html[1].link[1]
UrlOfResult(call) == call.results[1][2]

\* C13, as claimed: the url is the part of the href before its first '&', and
\* of that the part after the last '?q='; and an href that contains no '?q='
\* gives the href unchanged.
C13_HrefAsIsWithoutMarker ==
    pcall.pc = "returned" =>
        /\ Len(pcall.results) = 1
        /\ UrlOfResult(pcall) = AfterLastMarker(BeforeFirstAmp(HrefOf(pcall)))
        /\ Occurrences(HrefOf(pcall), QMarker) = {} => UrlOfResult(pcall) = HrefOf(pcall)

\* C13, amended: the url is the part of the href before its first '&', and of
\* that the part after the last '?q=' in it; when that part holds no '?q=', the
\* url is that part as it is, which is the whole href only when the href
\* holds no '&' either.
C13_NormalizedUrl ==
    pcall.pc = "returned" =>
        /\ Len(pcall.results) = 1
        /\ UrlOfResult(pcall) = AfterLastMarker(BeforeFirstAmp(HrefOf(pcall)))
        /\ Occurrences(BeforeFirstAmp(HrefOf(pcall)), QMarker) = {} =>
               UrlOfResult(pcall) = BeforeFirstAmp(HrefOf(pcall))
        /\ (Occurrences(HrefOf(pcall), QMarker) = {} /\ Occurrences(HrefOf(pcall), Amp) = {}) =>
               UrlOfResult(pcall) = HrefOf(pcall)

\* an href with an '&' and no '?q=': the url is not the href
C13_Witness ==
    /\ pcall.pc = "returned"
    /\ Occurrences(HrefOf(pcall), QMarker) = {}
    /\ Occurrences(HrefOf(pcall), Amp) # {}
    /\ UrlOfResult(pcall) # HrefOf(pcall)
    /\ UrlOfResult(pcall) # <<>>

----------------------------------------------------------------------------
(* Outcomes of perform_search (SpecPerform)                                 *)

\* the exhaustion error of a call with this many retries
IsExhaustion(e, retries) ==
    /\ e.type = "HTTPException"
    /\ e.status_code = 500
    /\ e.attempts = retries

\* C14: for every retries, 0 included, perform_search either returns a result
\* list extracted from the body of a successful fetch or raises the exhaustion
\* error; it never returns without a result list.
C14_ResultOrExhaustion ==
    LET d == ps[Direct]
    IN  /\ d.pc = "returned" => d.result # None
        /\ d.pc = "raised" => IsExhaustion(d.exc, d.retries)

\* attempt i of the direct call got something that makes the attempt raise: a
\* status other than 200, a transport error, or a body the extraction fails on
GotError(i) ==
    \/ attempts[i].got.kind # "response"
    \/ attempts[i].got.status # 200
    \/ attempts[i].got.body = Unparseable

\* C16: whatever an attempt raises (rate limiting, another status, a transport
\* error, an error of the extraction), perform_search catches it and, with
\* attempts remaining, sleeps and goes on to the next attempt; the only
\* exception it raises is the exhaustion error, and only when the attempt
\* numbered retries has failed.
C16_OnlyExhaustionSurfaces ==
    LET d == ps[Direct]
    IN  /\ \A i \in 1..Len(attempts) :
              /\ GotError(i) <=> Failed(i)
              /\ (Failed(i) /\ i < d.retries) =>
                     /\ attempts[i].sleep >= 0
                     /\ i = Len(attempts) => d.pc \in {"sleeping", "fetching"}
              /\ (i < Len(attempts)) => Failed(i)
        /\ (d.exc # NoException) <=> (d.pc = "raised")
        /\ d.pc = "raised" =>
               /\ IsExhaustion(d.exc, d.retries)
               /\ Len(attempts) = d.retries
               /\ Failed(d.retries)
               /\ d.exc.cause = ExcStr(attempts[d.retries].exc)

\* an error of the extraction, then a transport error, each slept on and
\* retried, then rate limiting on the last attempt: the exhaustion error
C16_Witness ==
    /\ ps[Direct].pc = "raised"
    /\ Len(attempts) = 3
    /\ attempts[1].exc.type = "RecursionError" /\ attempts[1].sleep >= 0
    /\ attempts[2].exc.type = "ClientError" /\ attempts[2].sleep >= 0
    /\ attempts[3].exc.status_code = 429
    /\ ps[Direct].exc.cause = <<"HTTPException", 429>>

----------------------------------------------------------------------------
(* Properties of the cache under concurrent requests (Spec)                 *)

\* request r, waiting in its gather, fails in this step
FailsNow(r) == rq[r].pc = "gathering" /\ rq'[r].pc = "failed"

\* request r, waiting in its gather, completes with a response in this step
SucceedsNow(r) == rq[r].pc = "gathering" /\ rq'[r].pc = "done"

\* the entries held under key k
EntriesOf(c, k) == {i \in 1..Len(c) : c[i].key = k}

\* the cache holds the same entries before and after the step
SameEntries == {cache[i] : i \in 1..Len(cache)} = {cache'[i] : i \in 1..Len(cache')}

\* C15: a request that fails after a miss writes nothing: the step in which it
\* fails leaves the cache as it is.  A request that succeeds writes, in the
\* step in which both its searches have returned, the one entry of its own
\* key, holding its response, and creates or changes no other entry.  No other
\* step creates or changes an entry.
C15_WritesOnlyOnSuccess ==
    [][ /\ \A r \in Requests :
             /\ FailsNow(r) => cache' = cache
             /\ SucceedsNow(r) =>
                    /\ \A c \in CallsOf(r) : ps'[c].pc = "returned"
                    /\ Cardinality(EntriesOf(cache', KeyOf(r))) = 1
                    /\ EntryOf(cache', KeyOf(r)).value = rq'[r].response
                    /\ \A i \in 1..Len(cache') :
                           cache'[i].key # KeyOf(r) => \E j \in 1..Len(cache) : cache[j] = cache'[i]
        /\ (\A r \in Requests : ~SucceedsNow(r)) => SameEntries
      ]_vars

\* one request has failed after a miss and wrote nothing under its key, while
\* the entry another request wrote under another key is held
C15_Witness ==
    \E r1, r2 \in Requests :
        /\ rq[r1].pc = "failed" /\ rq[r1].via = "miss"
        /\ rq[r2].pc = "done" /\ rq[r2].via = "miss"
        /\ KeyOf(r1) # KeyOf(r2)
        /\ ~HasKey(cache, KeyOf(r1))
        /\ HasKey(cache, KeyOf(r2))

----------------------------------------------------------------------------
(* Properties of the responses under concurrent requests (Spec)             *)

\* a result list as the list of SearchResult of a response
AsResults(results) ==
    [i \in 1..Len(results) |-> [title |-> results[i][1], url |-> results[i][2]]]

\* what may be extracted for num_results from the pages the engine has for url
ExtractedFrom(url, num_results) == {AsResults(parse_html(p, num_results)) : p \in Pages(url)}

\* the complete responses to a request for query and num_results
Complete(query, num_results) ==
    {[global_results |-> g, archive_results |-> a] :
        g \in ExtractedFrom(GlobalUrl(query), num_results),
        a \in ExtractedFrom(ArchiveUrl(query), num_results)}

\* C18: in the response of a request that ran its two searches, whichever
\* ended first and whatever retries each took, global_results are the results
\* extracted from a page of the general URL and archive_results those
\* extracted from a page of the archive-scoped URL.
C18_SidesNotSwapped ==
    \A r \in Requests :
        (rq[r].pc = "done" /\ rq[r].via = "miss") =>
            /\ rq[r].response.global_results
                   \in ExtractedFrom(GlobalUrl(rq[r].query), rq[r].num_results)
            /\ rq[r].response.archive_results
                   \in ExtractedFrom(ArchiveUrl(rq[r].query), rq[r].num_results)
            /\ \A i \in 1..Len(rq[r].response.global_results) :
                   rq[r].response.global_results[i].title[1] = GlobalUrl(rq[r].query)
            /\ \A i \in 1..Len(rq[r].response.archive_results) :
                   rq[r].response.archive_results[i].title[1] = ArchiveUrl(rq[r].query)

\* a request is done whose two sides both hold results, of different pages
C18_Witness ==
    \E r \in Requests :
        /\ rq[r].pc = "done" /\ rq[r].via = "miss"
        /\ rq[r].response.global_results # <<>>
        /\ rq[r].response.archive_results # <<>>
        /\ rq[r].response.global_results # rq[r].response.archive_results

\* C19: every value the cache holds under the key of (q, n) is a complete
\* response to a request for q and n, no entry is held under a key that is not
\* the key of its request, and every response a request returns, from the
\* cache or not, is a complete response to that request.
C19_StoredUnderOwnKey ==
    /\ \A i \in 1..Len(cache) :
           /\ cache[i].key \in Keys
           /\ \A input \in RequestInputs :
                  (CacheKey(input.query, input.num_results) = cache[i].key) =>
                      cache[i].value \in Complete(input.query, input.num_results)
    /\ \A r \in Requests :
           rq[r].pc = "done" => rq[r].response \in Complete(rq[r].query, rq[r].num_results)

\* two requests for queries that differ only by case have both stored their
\* responses, and the cache holds the two entries
C19_Witness ==
    \E r1, r2 \in Requests :
        /\ rq[r1].pc = "done" /\ rq[r1].query = <<"a">>
        /\ rq[r2].pc = "done" /\ rq[r2].query = <<"A">>
        /\ HasKey(cache, KeyOf(r1)) /\ HasKey(cache, KeyOf(r2))
        /\ EntryOf(cache, KeyOf(r1)).value # EntryOf(cache, KeyOf(r2)).value

----------------------------------------------------------------------------
(* Termination (SpecTerminating) and the lookup (SpecSequential)            *)

\* the fetches and the sleeps the calls of request r have made so far
Fetches(r) == ps[<<r, "global">>].nfetch + ps[<<r, "archive">>].nfetch

Sleeps(r) == ps[<<r, "global">>].nsleep + ps[<<r, "archive">>].nsleep

Running(c) == ps[c].pc \in {"fetching", "sleeping"}

\* C17: a request never makes more than 2 * retries fetches nor more than
\* 2 * (retries - 1) sleeps, the calls that outlive it counted in; a request
\* answered from the cache is complete at once and makes no fetch; and, every
\* fetch being answered and every sleep ending, a request that waits for its
\* searches completes with a response or an error, and each of its calls ends.
C17_TerminatesWithinBudget ==
    /\ [](\A r \in Requests :
             /\ Fetches(r) <= 2 * DefaultRetries
             /\ Sleeps(r) <= 2 * (DefaultRetries - 1)
             /\ rq[r].via = "hit" => (Completed(r) /\ Fetches(r) = 0 /\ Sleeps(r) = 0))
    /\ \A r \in Requests : (rq[r].pc = "gathering") ~> Completed(r)
    /\ \A c \in CallsOf(1) : Running(c) ~> ~Running(c)

\* a request has failed, and its two calls together made 2 * retries fetches
\* and 2 * (retries - 1) sleeps
C17_Witness ==
    \E r \in Requests :
        /\ rq[r].pc = "failed"
        /\ \A c \in CallsOf(r) : ps[c].pc = "raised"
        /\ Fetches(r) = 2 * DefaultRetries
        /\ Sleeps(r) = 2 * (DefaultRetries - 1)

\* C20: the lookup of lines 75-76 never fails: a request whose key is found by
\* the membership test returns the stored response, also when the entry
\* expires between the test and the read, and no request ends in an error
\* raised by the lookup.
C20_LookupNeverFails ==
    \A r \in Requests :
        /\ rq[r].error.type # "KeyError"
        /\ (rq[r].via = "hit") => (rq[r].pc = "done" /\ rq[r].status = 200)

====
